---- MODULE Spec2Model ----
(***************************************************************************)
(* Model of the Vulkan bootstrap of src/src/main.cpp                        *)
(* (HelloTriangleApplication): run() = init_window, init_vulkan (nine       *)
(* stages), main_loop, cleanup, under main()'s try/catch.                   *)
(*                                                                          *)
(* The driver and the window system are the environment: what they report   *)
(* (layers, physical devices with their queue families, extensions, surface *)
(* capabilities, formats, present modes, framebuffer size) is fixed in the  *)
(* initial state; whether a vkCreate* call succeeds is chosen at the call.  *)
(*                                                                          *)
(* uint32_t values are written as their 32-bit two's-complement pattern:    *)
(* 0 .. 2^31-1 stand for themselves and a negative n for n + 2^32, so that  *)
(* 0xFFFFFFFF is -1.  U32Less is the unsigned order on these patterns.      *)
(***************************************************************************)
EXTENDS Integers, Sequences, FiniteSets, TLC

VARIABLES
    pc,                      \* position in main() / run() / init_vulkan()
    available_layers,        \* driver: vkEnumerateInstanceLayerProperties
    devices,                 \* driver: vkEnumeratePhysicalDevices, with each device's properties
    framebuffer_size,        \* window system: glfwGetFramebufferSize
    cursor,                  \* pick_physical_device: position of the for loop over devices
    indices,                 \* HelloTriangleApplication::indices
    physical_device,         \* HelloTriangleApplication::physical_device (0 = VK_NULL_HANDLE)
    queue_create_infos,      \* create_logical_device: the requests handed to vkCreateDevice
    graphics_queue,          \* HelloTriangleApplication::graphics_queue
    present_queue,           \* HelloTriangleApplication::present_queue
    swap_create_info,        \* create_swap_chain: the VkSwapchainCreateInfoKHR handed to the driver
    swap_chain_images,       \* HelloTriangleApplication::swap_chain_images
    swap_chain_image_format, \* HelloTriangleApplication::swap_chain_image_format
    swap_chain_extent,       \* HelloTriangleApplication::swap_chain_extent
    swap_chain_image_views,  \* HelloTriangleApplication::swap_chain_image_views
    render_pass,             \* HelloTriangleApplication::render_pass
    graphics_pipeline,       \* HelloTriangleApplication::graphics_pipeline
    swap_chain_framebuffers, \* HelloTriangleApplication::swap_chain_framebuffers
    created,                 \* driver: handles created, in creation order
    destroyed,               \* driver: handles destroyed, in destruction order
    thrown,                  \* the exception in flight when the process ended
    stderr,                  \* what main() wrote to std::cerr
    exit_status              \* how the process ended

vars == <<pc, available_layers, devices, framebuffer_size, cursor, indices,
          physical_device, queue_create_infos, graphics_queue, present_queue,
          swap_create_info, swap_chain_images, swap_chain_image_format,
          swap_chain_extent, swap_chain_image_views, render_pass,
          graphics_pipeline, swap_chain_framebuffers, created, destroyed,
          thrown, stderr, exit_status>>

(***************************************************************************)
(* Bounds of the model.                                                     *)
(***************************************************************************)
MaxLayers == 2        \* length of the driver's layer list
MaxDevices == 2       \* number of physical devices enumerated
MaxFamilies == 2      \* queue families per device
MaxImageCount == 3    \* surface capabilities: minImageCount, maxImageCount
MaxExtraImages == 1   \* images the driver returns beyond the requested count
MaxDim == 2           \* extents: widths and heights 0 .. MaxDim (besides named sizes)
MaxFormats == 2       \* length of a surface-format list
MaxPresentModes == 3  \* length of a present-mode list

(***************************************************************************)
(* Program constants.                                                       *)
(***************************************************************************)
WIDTH == 800
HEIGHT == 600
validation_layers == <<"VK_LAYER_KHRONOS_validation">>
device_extensions == <<"VK_KHR_swapchain">>
enable_validation_layers == TRUE      \* the Makefile builds without NDEBUG
VK_NULL_HANDLE == 0
EXIT_SUCCESS == 0
EXIT_FAILURE == 1
UINT32_MAX == -1                      \* 0xFFFFFFFF as a 32-bit pattern

Range(s) == {s[i] : i \in 1..Len(s)}

\* unsigned comparison of two uint32_t patterns
U32Less(a, b) == IF (a < 0) = (b < 0) THEN a < b ELSE b < 0

(***************************************************************************)
(* std::optional<uint32_t>: the empty set, or the singleton of the value.   *)
(***************************************************************************)
nullopt == {}
has_value(o) == o # {}
value(o) == CHOOSE v \in o : TRUE

\* A default-constructed QueueFamilyIndices
EmptyIndices == [graphics_family |-> nullopt, present_family |-> nullopt]

is_complete(ind) == has_value(ind.graphics_family) /\ has_value(ind.present_family)

(***************************************************************************)
(* Handles, as the driver sees them.                                        *)
(***************************************************************************)
Handle(kind, idx) == [kind |-> kind, idx |-> idx]

NoException == [kind |-> "none", what |-> ""]
Running == [by |-> "running", code |-> 0]

(***************************************************************************)
(* main(): the try/catch around app.run().  A std::exception thrown by      *)
(* value is caught: what() goes to std::cerr and main returns EXIT_FAILURE. *)
(* Anything else (a thrown pointer) is not matched by the handler, so       *)
(* std::terminate ends the process by abort(): no what() is printed and     *)
(* there is no exit status.                                                 *)
(***************************************************************************)
main_catch(exc) ==
    IF exc.kind = "exception"
    THEN [stderr |-> <<exc.what>>, exit |-> [by |-> "return", code |-> EXIT_FAILURE]]
    ELSE [stderr |-> <<>>, exit |-> [by |-> "abort", code |-> 134]]

\* The exception is swallowed where it is raised and the stage is entered again.
Unwind_stage_retried(exc) ==
    /\ thrown' = exc
    /\ UNCHANGED <<stderr, exit_status, pc>>

\* The process ends with exception exc in flight.
Unwind(exc) ==
    /\ thrown' = exc
    /\ stderr' = stderr \o main_catch(exc).stderr
    /\ exit_status' = main_catch(exc).exit
    /\ pc' = "exited"

\* throw std::runtime_error(what)
Throw(what) == Unwind([kind |-> "exception", what |-> what])

\* throw new std::runtime_error(what)
ThrowNew(what) == Unwind([kind |-> "pointer", what |-> what])

NoThrow == UNCHANGED <<thrown, stderr, exit_status>>

(***************************************************************************)
(* create_instance                                                          *)
(***************************************************************************)
LayerNames == {"VK_LAYER_KHRONOS_validation", "VK_LAYER_LUNARG_monitor"}

\* strcmp(a, b): zero exactly when the two strings are equal
strcmp(a, b) == IF a = b THEN 0 ELSE 1

\* The inner loop: layer_found is set at the first available layer for which
\* strcmp(layer_name, layerName) is nonzero, i.e. converts to true.
layer_found(layer_name, layers) ==
    \E i \in 1..Len(layers) : strcmp(layer_name, layers[i]) # 0

check_validation_layer_support(layers) ==
    \A k \in 1..Len(validation_layers) : layer_found(validation_layers[k], layers)

\* The layers create_instance hands to vkCreateInstance.
enabled_layers == IF enable_validation_layers THEN Range(validation_layers) ELSE {}

(***************************************************************************)
(* Physical devices as the driver describes them.                           *)
(***************************************************************************)
\* One queue family: its VK_QUEUE_GRAPHICS_BIT and what
\* vkGetPhysicalDeviceSurfaceSupportKHR reports for it.
QueueFamily == [graphics : BOOLEAN, present : BOOLEAN]

RECURSIVE SeqsUpTo(_, _)
SeqsUpTo(S, n) ==
    IF n = 0 THEN {<<>>}
    ELSE LET shorter == SeqsUpTo(S, n - 1)
         IN  shorter \cup {Append(s, x) : s \in {t \in shorter : Len(t) = n - 1}, x \in S}

Extent(w, h) == [width |-> w, height |-> h]

Format(f, c) == [format |-> f, colorSpace |-> c]

VK_FORMAT_B8G8R8A8_SRGB == "VK_FORMAT_B8G8R8A8_SRGB"
VK_COLOR_SPACE_SRGB_NONLINEAR_KHR == "VK_COLOR_SPACE_SRGB_NONLINEAR_KHR"
VK_PRESENT_MODE_MAILBOX_KHR == "VK_PRESENT_MODE_MAILBOX_KHR"
VK_PRESENT_MODE_FIFO_KHR == "VK_PRESENT_MODE_FIFO_KHR"

(***************************************************************************)
(* find_queue_families.  The function works on the member `indices`: it     *)
(* declares no local result, so it starts from whatever the member holds.   *)
(* ScanFamilies is the for loop from index i (0-based) on.                  *)
(***************************************************************************)
RECURSIVE ScanFamilies(_, _, _)
ScanFamilies(ind, families, i) ==
    IF i >= Len(families) THEN ind
    ELSE LET queue_family == families[i + 1]
             a == IF queue_family.present
                  THEN [ind EXCEPT !.present_family = {i}] ELSE ind
             b == IF queue_family.graphics
                  THEN [a EXCEPT !.graphics_family = {i}] ELSE a
         IN  IF is_complete(b) THEN b ELSE ScanFamilies(b, families, i + 1)

find_queue_families(ind, device) == ScanFamilies(ind, device.families, 0)

(***************************************************************************)
(* check_device_extension_support: every required extension is erased from  *)
(* the required set by some available extension.                            *)
(***************************************************************************)
check_device_extension_support(device) ==
    Range(device_extensions) \ device.extensions = {}

(***************************************************************************)
(* query_swap_chain_support: the present modes are fetched under the test   *)
(* format_count > 0 (not preset_mode_count > 0).                            *)
(***************************************************************************)
query_swap_chain_support(device) ==
    [capabilities  |-> device.capabilities,
     formats       |-> device.formats,
     present_modes |-> IF Len(device.formats) > 0 THEN device.present_modes ELSE <<>>]

(***************************************************************************)
(* is_device_suitable: assigns the member `indices` and returns the verdict.*)
(***************************************************************************)
is_device_suitable(ind, device) ==
    LET found == find_queue_families(ind, device)
        extensions_support == check_device_extension_support(device)
        swap_chain_support == query_swap_chain_support(device)
    IN  [indices  |-> found,
         suitable |->
            IF extensions_support
               /\ (swap_chain_support.formats = <<>>
                   \/ swap_chain_support.present_modes = <<>>)
            THEN FALSE
            ELSE is_complete(found) /\ extensions_support]

(***************************************************************************)
(* create_logical_device                                                    *)
(***************************************************************************)
\* The elements of a set of uint32_t in the iteration order of std::set.
RECURSIVE Ascending(_)
Ascending(S) ==
    IF S = {} THEN <<>>
    ELSE LET least == CHOOSE x \in S : \A y \in S : x = y \/ U32Less(x, y)
         IN  <<least>> \o Ascending(S \ {least})

unique_queue_families(ind) ==
    {value(ind.graphics_family), value(ind.present_family)}

\* The body of the loop over unique_queue_families: the request names
\* indices.graphics_family, whatever queue_family the iteration is at.
queue_create_info(queue_family, ind) ==
    [queueFamilyIndex |-> value(ind.graphics_family),
     queueCount       |-> 1,
     queuePriority    |-> 1]

build_queue_create_infos(ind) ==
    LET families == Ascending(unique_queue_families(ind))
    IN  [k \in 1..Len(families) |-> queue_create_info(families[k], ind)]

\* vkGetDeviceQueue(device, family, 0, &queue)
vkGetDeviceQueue(family) == [family |-> family, index |-> 0]

(***************************************************************************)
(* create_swap_chain and its choose_* helpers                               *)
(***************************************************************************)
is_preferred_format(available_format) ==
    /\ available_format.format = VK_FORMAT_B8G8R8A8_SRGB
    /\ available_format.colorSpace = VK_COLOR_SPACE_SRGB_NONLINEAR_KHR

\* The for loop from position i on, then the fallback available_formats[0].
RECURSIVE ScanFormats(_, _)
ScanFormats(available_formats, i) ==
    IF i > Len(available_formats) THEN available_formats[1]
    ELSE IF is_preferred_format(available_formats[i]) THEN available_formats[i]
    ELSE ScanFormats(available_formats, i + 1)

\* choose_swap_surface_format looking at the first entry only
choose_swap_surface_format_first(available_formats) == available_formats[1]

choose_swap_surface_format(available_formats) == ScanFormats(available_formats, 1)

\* The for loop from position i on, then the fallback VK_PRESENT_MODE_FIFO_KHR.
RECURSIVE ScanPresentModes(_, _)
ScanPresentModes(available_present_modes, i) ==
    IF i > Len(available_present_modes) THEN VK_PRESENT_MODE_FIFO_KHR
    ELSE IF available_present_modes[i] = VK_PRESENT_MODE_MAILBOX_KHR
         THEN available_present_modes[i]
    ELSE ScanPresentModes(available_present_modes, i + 1)

\* choose_swap_present_mode falling back to the first entry of the list, as
\* choose_swap_surface_format does
choose_swap_present_mode_first_entry(available_present_modes) ==
    IF VK_PRESENT_MODE_MAILBOX_KHR \in Range(available_present_modes)
    THEN VK_PRESENT_MODE_MAILBOX_KHR
    ELSE available_present_modes[1]

choose_swap_present_mode(available_present_modes) ==
    ScanPresentModes(available_present_modes, 1)

\* std::clamp(v, lo, hi) on uint32_t: the set of values the call can return.
\* With hi < lo the call has undefined behaviour: a standard library that
\* computes min(max(v, lo), hi) returns hi, one that tests v < lo first
\* returns lo when v is below it, and hi otherwise.
clamp(v, lo, hi) ==
    IF U32Less(hi, lo) THEN {lo, hi}
    ELSE IF U32Less(v, lo) THEN {lo}
    ELSE IF U32Less(hi, v) THEN {hi}
    ELSE {v}

\* choose_swap_extent without the clamp of the height
choose_swap_extent_width_only(capabilities, fb) ==
    IF capabilities.currentExtent.width # UINT32_MAX
    THEN {capabilities.currentExtent}
    ELSE {Extent(w, fb.height) :
              w \in clamp(fb.width, capabilities.minImageExtent.width,
                          capabilities.maxImageExtent.width)}

\* The extents choose_swap_extent can return (one, unless a clamp has its
\* bounds reversed).  fb is what glfwGetFramebufferSize stores;
\* static_cast<uint32_t> keeps the pattern.
choose_swap_extent(capabilities, fb) ==
    IF capabilities.currentExtent.width # UINT32_MAX
    THEN {capabilities.currentExtent}
    ELSE {Extent(w, h) :
              w \in clamp(fb.width, capabilities.minImageExtent.width,
                          capabilities.maxImageExtent.width),
              h \in clamp(fb.height, capabilities.minImageExtent.height,
                          capabilities.maxImageExtent.height)}

\* image_count without the test maxImageCount > 0
image_count_always_clamped(capabilities) ==
    LET count == capabilities.minImageCount + 1
    IN  IF U32Less(capabilities.maxImageCount, count)
        THEN capabilities.maxImageCount
        ELSE count

\* image_count as create_swap_chain computes it (uint32_t; the model's counts
\* stay far below the wrap-around)
image_count(capabilities) ==
    LET count == capabilities.minImageCount + 1
    IN  IF capabilities.maxImageCount # 0 /\ U32Less(capabilities.maxImageCount, count)
        THEN capabilities.maxImageCount
        ELSE count

\* sharing_mode without its concurrent branch
sharing_mode_always_exclusive(ind) ==
    [imageSharingMode      |-> "VK_SHARING_MODE_EXCLUSIVE",
     queueFamilyIndexCount |-> 0,
     pQueueFamilyIndices   |-> <<>>]

\* imageSharingMode, queueFamilyIndexCount and pQueueFamilyIndices of create_info
sharing_mode(ind) ==
    IF ind.present_family # ind.graphics_family
    THEN [imageSharingMode      |-> "VK_SHARING_MODE_CONCURRENT",
          queueFamilyIndexCount |-> 2,
          pQueueFamilyIndices   |-> <<value(ind.graphics_family),
                                      value(ind.present_family)>>]
    ELSE [imageSharingMode      |-> "VK_SHARING_MODE_EXCLUSIVE",
          queueFamilyIndexCount |-> 0,
          pQueueFamilyIndices   |-> <<>>]

swapchain_create_info(ind, support, extent) ==
    LET surface_format == choose_swap_surface_format(support.formats)
        sharing == sharing_mode(ind)
    IN  [minImageCount         |-> image_count(support.capabilities),
         imageFormat           |-> surface_format.format,
         imageColorSpace       |-> surface_format.colorSpace,
         imageExtent           |-> extent,
         imageArrayLayers      |-> 1,
         imageSharingMode      |-> sharing.imageSharingMode,
         queueFamilyIndexCount |-> sharing.queueFamilyIndexCount,
         pQueueFamilyIndices   |-> sharing.pQueueFamilyIndices,
         presentMode           |-> choose_swap_present_mode(support.present_modes)]

(***************************************************************************)
(* The steps of run().  Each stage of init_vulkan is one step, except the   *)
(* device loop of pick_physical_device, which takes one step per candidate. *)
(***************************************************************************)
env == <<available_layers, devices, framebuffer_size>>
selection == <<cursor, indices, physical_device>>
logical == <<queue_create_infos, graphics_queue, present_queue>>
swapchain == <<swap_create_info, swap_chain_images, swap_chain_image_format,
               swap_chain_extent>>
later == <<swap_chain_image_views, render_pass, graphics_pipeline,
           swap_chain_framebuffers>>

\* init_window: GLFW only, no Vulkan state
InitWindow ==
    /\ pc = "init_window"
    /\ pc' = "create_instance"
    /\ UNCHANGED <<env, selection, logical, swapchain, later, created, destroyed>>
    /\ NoThrow

CreateInstance ==
    /\ pc = "create_instance"
    /\ UNCHANGED <<env, selection, logical, swapchain, later, destroyed>>
    /\ IF ~check_validation_layer_support(available_layers)
       THEN /\ Throw("validation layers requested, but not available!")
            /\ UNCHANGED created
       ELSE \E ok \in BOOLEAN :
              /\ IF ok
                 THEN /\ created' = Append(created, Handle("instance", 0))
                      /\ pc' = "create_surface"
                      /\ NoThrow
                 ELSE /\ Throw("failed to create instance")
                      /\ UNCHANGED created

CreateSurface ==
    /\ pc = "create_surface"
    /\ UNCHANGED <<env, selection, logical, swapchain, later, destroyed>>
    /\ \E ok \in BOOLEAN :
         IF ok
         THEN /\ created' = Append(created, Handle("surface", 0))
              /\ pc' = "pick_physical_device"
              /\ NoThrow
         ELSE /\ Throw("failed to create window surface")
              /\ UNCHANGED created

\* pick_physical_device up to the for loop
PickEnumerate ==
    /\ pc = "pick_physical_device"
    /\ physical_device' = VK_NULL_HANDLE
    /\ UNCHANGED <<env, indices, logical, swapchain, later, created, destroyed>>
    /\ IF Len(devices) = 0
       THEN /\ Throw("failed to find GPU with Vulkan support!")
            /\ UNCHANGED cursor
       ELSE /\ pc' = "pick_loop"
            /\ cursor' = 1
            /\ NoThrow

\* One iteration of the for loop: is_device_suitable(devices[cursor]); a
\* suitable device ends the loop and the function; after the last device the
\* test of physical_device against VK_NULL_HANDLE throws.
PickTestDevice ==
    /\ pc = "pick_loop"
    /\ UNCHANGED <<env, logical, swapchain, later, created, destroyed>>
    /\ LET verdict == is_device_suitable(indices, devices[cursor])
       IN  /\ indices' = verdict.indices
           /\ IF verdict.suitable
              THEN /\ physical_device' = cursor
                   /\ cursor' = cursor
                   /\ pc' = "create_logical_device"
                   /\ NoThrow
              ELSE /\ UNCHANGED physical_device
                   /\ cursor' = cursor + 1
                   /\ IF cursor = Len(devices)
                      THEN ThrowNew("failed to find a suitable GPU")
                      ELSE /\ pc' = "pick_loop"
                           /\ NoThrow

CreateLogicalDevice ==
    /\ pc = "create_logical_device"
    /\ UNCHANGED <<env, selection, swapchain, later, destroyed>>
    /\ queue_create_infos' = build_queue_create_infos(indices)
    /\ \E ok \in BOOLEAN :
         IF ok
         THEN /\ created' = Append(created, Handle("device", 0))
              /\ graphics_queue' = {vkGetDeviceQueue(value(indices.graphics_family))}
              /\ present_queue' = {vkGetDeviceQueue(value(indices.present_family))}
              /\ pc' = "create_swap_chain"
              /\ NoThrow
         ELSE /\ Throw("failed to create logical device")
              /\ UNCHANGED <<created, graphics_queue, present_queue>>

\* The driver may return more images than create_info.minImageCount.
CreateSwapChain ==
    /\ pc = "create_swap_chain"
    /\ UNCHANGED <<env, selection, logical, later, destroyed>>
    /\ LET swap_chain_support == query_swap_chain_support(devices[physical_device])
       IN  \E extent \in choose_swap_extent(swap_chain_support.capabilities,
                                            framebuffer_size) :
             LET create_info == swapchain_create_info(indices, swap_chain_support, extent)
             IN  /\ swap_create_info' = {create_info}
                 /\ \E ok \in BOOLEAN :
                      IF ok
                      THEN /\ \E n \in create_info.minImageCount ..
                                       (create_info.minImageCount + MaxExtraImages) :
                                swap_chain_images' = [i \in 1..n |-> Handle("image", i)]
                           /\ swap_chain_image_format' = {create_info.imageFormat}
                           /\ swap_chain_extent' = {create_info.imageExtent}
                           /\ created' = Append(created, Handle("swap_chain", 0))
                           /\ pc' = "create_image_views"
                           /\ NoThrow
                      ELSE /\ Throw("failed to create swap chain!")
                           /\ UNCHANGED <<swap_chain_images, swap_chain_image_format,
                                          swap_chain_extent, created>>

\* swap_chain_image_views is resized to the image count (null handles), then
\* filled in order; the first failing vkCreateImageView throws.  k views are
\* created before the failure, or all of them.
CreateImageViews ==
    /\ pc = "create_image_views"
    /\ UNCHANGED <<env, selection, logical, swapchain, render_pass,
                   graphics_pipeline, swap_chain_framebuffers, destroyed>>
    /\ \E k \in 0..Len(swap_chain_images) :
         /\ swap_chain_image_views' =
                [i \in 1..Len(swap_chain_images) |->
                    IF i <= k THEN Handle("image_view", i) ELSE Handle("null", 0)]
         /\ created' = created \o [i \in 1..k |-> Handle("image_view", i)]
         /\ IF k = Len(swap_chain_images)
            THEN /\ pc' = "create_render_pass"
                 /\ NoThrow
            ELSE Throw("failed to create image views!")

\* init_vulkan without its call of create_graphics_pipeline
CreateRenderPass_then_framebuffers ==
    /\ pc = "create_render_pass"
    /\ UNCHANGED <<env, selection, logical, swapchain, swap_chain_image_views,
                   graphics_pipeline, swap_chain_framebuffers, destroyed>>
    /\ \E ok \in BOOLEAN :
         IF ok
         THEN /\ render_pass' = {[format |-> value(swap_chain_image_format)]}
              /\ created' = Append(created, Handle("render_pass", 0))
              /\ pc' = "create_framebuffers"
              /\ NoThrow
         ELSE /\ Throw("failed to create render pass!")
              /\ UNCHANGED <<render_pass, created>>

CreateRenderPass ==
    /\ pc = "create_render_pass"
    /\ UNCHANGED <<env, selection, logical, swapchain, swap_chain_image_views,
                   graphics_pipeline, swap_chain_framebuffers, destroyed>>
    /\ \E ok \in BOOLEAN :
         IF ok
         THEN /\ render_pass' = {[format |-> value(swap_chain_image_format)]}
              /\ created' = Append(created, Handle("render_pass", 0))
              /\ pc' = "create_graphics_pipeline"
              /\ NoThrow
         ELSE /\ Throw("failed to create render pass!")
              /\ UNCHANGED <<render_pass, created>>

\* The driver calls of create_graphics_pipeline, in order, with the message
\* thrown when the call fails.
PipelineCalls ==
    << [handle |-> Handle("shader_module", 1), what |-> "failed to create shader module"],
       [handle |-> Handle("shader_module", 2), what |-> "failed to create shader module"],
       [handle |-> Handle("pipeline_layout", 0), what |-> "failed to create pipeline layout"],
       [handle |-> Handle("graphics_pipeline", 0), what |-> "failed to create graphics pipeline"] >>

\* k calls succeed before the first failure, or all of them; only then are
\* the two shader modules destroyed.
CreateGraphicsPipeline ==
    /\ pc = "create_graphics_pipeline"
    /\ UNCHANGED <<env, selection, logical, swapchain, swap_chain_image_views,
                   render_pass, swap_chain_framebuffers>>
    /\ \E k \in 0..Len(PipelineCalls) :
         /\ created' = created \o [i \in 1..k |-> PipelineCalls[i].handle]
         /\ IF k = Len(PipelineCalls)
            THEN /\ graphics_pipeline' = {[renderPass |-> value(render_pass),
                                           extent |-> value(swap_chain_extent)]}
                 /\ destroyed' = destroyed \o <<Handle("shader_module", 1),
                                                Handle("shader_module", 2)>>
                 /\ pc' = "create_framebuffers"
                 /\ NoThrow
            ELSE /\ Throw(PipelineCalls[k + 1].what)
                 /\ UNCHANGED <<graphics_pipeline, destroyed>>

\* One framebuffer per image view, in order; the first failing
\* vkCreateFramebuffer throws.
\* framebuffer_info attaching the first image view whatever i is
framebuffer_info_first_view(i) ==
    [handle      |-> Handle("framebuffer", i),
     renderPass  |-> value(render_pass),
     attachments |-> <<swap_chain_image_views[1]>>,
     width       |-> value(swap_chain_extent).width,
     height      |-> value(swap_chain_extent).height,
     layers      |-> 1]

framebuffer_info(i) ==
    [handle      |-> Handle("framebuffer", i),
     renderPass  |-> value(render_pass),
     attachments |-> <<swap_chain_image_views[i]>>,
     width       |-> value(swap_chain_extent).width,
     height      |-> value(swap_chain_extent).height,
     layers      |-> 1]

NullFramebuffer == [handle |-> Handle("null", 0)]

\* create_framebuffers destroying the framebuffers it has created before it
\* throws
CreateFramebuffers_releases_on_failure ==
    /\ pc = "create_framebuffers"
    /\ UNCHANGED <<env, selection, logical, swapchain, swap_chain_image_views,
                   render_pass, graphics_pipeline>>
    /\ \E k \in 0..Len(swap_chain_image_views) :
         /\ swap_chain_framebuffers' =
                [i \in 1..Len(swap_chain_image_views) |->
                    IF i <= k THEN framebuffer_info(i) ELSE NullFramebuffer]
         /\ created' = created \o [i \in 1..k |-> Handle("framebuffer", i)]
         /\ IF k = Len(swap_chain_image_views)
            THEN /\ pc' = "main_loop"
                 /\ UNCHANGED destroyed
                 /\ NoThrow
            ELSE /\ destroyed' = destroyed \o [i \in 1..k |-> Handle("framebuffer", i)]
                 /\ Throw("failed to create framebuffer")

CreateFramebuffers ==
    /\ pc = "create_framebuffers"
    /\ UNCHANGED <<env, selection, logical, swapchain, swap_chain_image_views,
                   render_pass, graphics_pipeline, destroyed>>
    /\ \E k \in 0..Len(swap_chain_image_views) :
         /\ swap_chain_framebuffers' =
                [i \in 1..Len(swap_chain_image_views) |->
                    IF i <= k THEN framebuffer_info(i) ELSE NullFramebuffer]
         /\ created' = created \o [i \in 1..k |-> Handle("framebuffer", i)]
         /\ IF k = Len(swap_chain_image_views)
            THEN /\ pc' = "main_loop"
                 /\ NoThrow
            ELSE Throw("failed to create framebuffer")

\* One test of glfwWindowShouldClose: poll again, or leave the loop.
MainLoop ==
    /\ pc = "main_loop"
    /\ \E should_close \in BOOLEAN :
         pc' = IF should_close THEN "cleanup" ELSE "main_loop"
    /\ UNCHANGED <<env, selection, logical, swapchain, later, created, destroyed>>
    /\ NoThrow

\* cleanup destroying the swapchain ahead of its image views
cleanup_order_swapchain_first ==
    [i \in 1..Len(swap_chain_framebuffers) |-> swap_chain_framebuffers[i].handle]
    \o <<Handle("graphics_pipeline", 0), Handle("pipeline_layout", 0),
         Handle("render_pass", 0), Handle("swap_chain", 0)>>
    \o swap_chain_image_views
    \o <<Handle("device", 0), Handle("surface", 0), Handle("instance", 0)>>

\* The vkDestroy* calls of cleanup, in order.
cleanup_order ==
    [i \in 1..Len(swap_chain_framebuffers) |-> swap_chain_framebuffers[i].handle]
    \o <<Handle("graphics_pipeline", 0), Handle("pipeline_layout", 0),
         Handle("render_pass", 0)>>
    \o swap_chain_image_views
    \o <<Handle("swap_chain", 0), Handle("device", 0), Handle("surface", 0),
         Handle("instance", 0)>>

\* cleanup, then run() and main() return
Cleanup ==
    /\ pc = "cleanup"
    /\ destroyed' = destroyed \o cleanup_order
    /\ pc' = "exited"
    /\ exit_status' = [by |-> "return", code |-> EXIT_SUCCESS]
    /\ UNCHANGED <<env, selection, logical, swapchain, later, created, thrown, stderr>>

(***************************************************************************)
(* Environments.                                                            *)
(***************************************************************************)
LayerLists == SeqsUpTo(LayerNames, MaxLayers)

FamilyLists == SeqsUpTo(QueueFamily, MaxFamilies)

ExtensionNames == {"VK_KHR_swapchain", "VK_KHR_maintenance1"}

Caps(min_count, max_count, current, min_extent, max_extent) ==
    [minImageCount  |-> min_count,
     maxImageCount  |-> max_count,
     currentExtent  |-> current,
     minImageExtent |-> min_extent,
     maxImageExtent |-> max_extent]

UndefinedExtent == Extent(UINT32_MAX, UINT32_MAX)

\* A surface of the window's size, any number of images
WindowCaps == Caps(2, 0, Extent(WIDTH, HEIGHT), Extent(WIDTH, HEIGHT), Extent(WIDTH, HEIGHT))

\* A surface that leaves the extent to the swapchain, two images at most
FreeCaps == Caps(2, 2, UndefinedExtent, Extent(1, 1), Extent(4096, 4096))

UnormFormat == Format("VK_FORMAT_B8G8R8A8_UNORM", VK_COLOR_SPACE_SRGB_NONLINEAR_KHR)
SrgbFormat == Format(VK_FORMAT_B8G8R8A8_SRGB, VK_COLOR_SPACE_SRGB_NONLINEAR_KHR)

Gpu(families, extensions, capabilities, formats, present_modes) ==
    [families      |-> families,
     extensions    |-> extensions,
     capabilities  |-> capabilities,
     formats       |-> formats,
     present_modes |-> present_modes]

\* Every device of up to MaxFamilies queue families, with or without the
\* extensions, formats and present modes that suitability asks for.
Devices ==
    {Gpu(f, e, WindowCaps, fm, pm) :
        f \in FamilyLists, e \in SUBSET ExtensionNames,
        fm \in {<<>>, <<SrgbFormat>>}, pm \in {<<>>, <<VK_PRESENT_MODE_FIFO_KHR>>}}

DeviceLists == SeqsUpTo(Devices, MaxDevices)

\* The machines of the end-to-end runs: devices with one combined family or
\* two split families, on either kind of surface; devices with no queue
\* family, one graphics-only or one present-only; a device without the
\* swapchain extension; a device without surface formats.
GraphicsOnly == [graphics |-> TRUE, present |-> FALSE]
PresentOnly == [graphics |-> FALSE, present |-> TRUE]
Combined == [graphics |-> TRUE, present |-> TRUE]

BootDevices ==
    {Gpu(f, {"VK_KHR_swapchain"}, c, <<UnormFormat, SrgbFormat>>,
         <<VK_PRESENT_MODE_FIFO_KHR, VK_PRESENT_MODE_MAILBOX_KHR>>) :
        f \in {<<Combined>>, <<GraphicsOnly, PresentOnly>>},
        c \in {WindowCaps, FreeCaps}}
    \cup {Gpu(f, {"VK_KHR_swapchain"}, WindowCaps, <<UnormFormat, SrgbFormat>>,
              <<VK_PRESENT_MODE_FIFO_KHR, VK_PRESENT_MODE_MAILBOX_KHR>>) :
             f \in {<<>>, <<GraphicsOnly>>, <<PresentOnly>>}}
    \cup {Gpu(<<Combined>>, {}, WindowCaps, <<SrgbFormat>>, <<VK_PRESENT_MODE_FIFO_KHR>>),
          Gpu(<<Combined>>, {"VK_KHR_swapchain"}, WindowCaps, <<>>, <<>>)}

BootDeviceLists == SeqsUpTo(BootDevices, MaxDevices)

(***************************************************************************)
(* Initial states.  The members of a default-initialized application are    *)
(* empty vectors and empty optionals; handles not yet assigned are the      *)
(* empty set.                                                               *)
(***************************************************************************)
NothingSelected ==
    /\ cursor = 0
    /\ indices = EmptyIndices
    /\ physical_device = VK_NULL_HANDLE

NoLogicalDevice ==
    /\ queue_create_infos = <<>>
    /\ graphics_queue = {}
    /\ present_queue = {}

NoSwapChain ==
    /\ swap_create_info = {}
    /\ swap_chain_images = <<>>
    /\ swap_chain_image_format = {}
    /\ swap_chain_extent = {}
    /\ swap_chain_image_views = <<>>
    /\ render_pass = {}
    /\ graphics_pipeline = {}
    /\ swap_chain_framebuffers = <<>>
    /\ destroyed = <<>>
    /\ thrown = NoException
    /\ stderr = <<>>
    /\ exit_status = Running

\* main() starts on any machine of the end-to-end runs.
Init ==
    /\ pc = "init_window"
    /\ available_layers \in LayerLists
    /\ devices \in BootDeviceLists
    /\ framebuffer_size = Extent(WIDTH, HEIGHT)
    /\ created = <<>>
    /\ NothingSelected
    /\ NoLogicalDevice
    /\ NoSwapChain

Next ==
    \/ InitWindow
    \/ CreateInstance
    \/ CreateSurface
    \/ PickEnumerate
    \/ PickTestDevice
    \/ CreateLogicalDevice
    \/ CreateSwapChain
    \/ CreateImageViews
    \/ CreateRenderPass
    \/ CreateGraphicsPipeline
    \/ CreateFramebuffers
    \/ MainLoop
    \/ Cleanup

Spec == Init /\ [][Next]_vars

(***************************************************************************)
(* Device selection on every machine of up to MaxDevices devices: the run   *)
(* has reached pick_physical_device (instance and surface exist).           *)
(***************************************************************************)
InitPick ==
    /\ pc = "pick_physical_device"
    /\ available_layers = <<"VK_LAYER_LUNARG_monitor", "VK_LAYER_KHRONOS_validation">>
    /\ devices \in DeviceLists
    /\ framebuffer_size = Extent(WIDTH, HEIGHT)
    /\ created = <<Handle("instance", 0), Handle("surface", 0)>>
    /\ NothingSelected
    /\ NoLogicalDevice
    /\ NoSwapChain

NextPick ==
    \/ PickEnumerate
    \/ PickTestDevice

SpecPick == InitPick /\ [][NextPick]_vars

(***************************************************************************)
(* Swapchain negotiation: the run has reached create_swap_chain on a        *)
(* machine whose only device was found suitable.                            *)
(***************************************************************************)
AtCreateSwapChain(device) ==
    /\ is_device_suitable(EmptyIndices, device).suitable
    /\ pc = "create_swap_chain"
    /\ available_layers = <<"VK_LAYER_LUNARG_monitor", "VK_LAYER_KHRONOS_validation">>
    /\ devices = <<device>>
    /\ cursor = 1
    /\ indices = find_queue_families(EmptyIndices, device)
    /\ physical_device = 1
    /\ queue_create_infos = build_queue_create_infos(indices)
    /\ graphics_queue = {vkGetDeviceQueue(value(indices.graphics_family))}
    /\ present_queue = {vkGetDeviceQueue(value(indices.present_family))}
    /\ created = <<Handle("instance", 0), Handle("surface", 0), Handle("device", 0)>>
    /\ NoSwapChain

NextSwapChain == CreateSwapChain

\* Every image-count range, on every suitable layout of queue families
InitSwapChain ==
    /\ framebuffer_size = Extent(WIDTH, HEIGHT)
    /\ \E f \in FamilyLists, min_count \in 1..MaxImageCount, max_count \in 0..MaxImageCount :
         AtCreateSwapChain(
             Gpu(f, {"VK_KHR_swapchain"},
                 Caps(min_count, max_count, Extent(WIDTH, HEIGHT),
                      Extent(WIDTH, HEIGHT), Extent(WIDTH, HEIGHT)),
                 <<SrgbFormat>>, <<VK_PRESENT_MODE_FIFO_KHR>>))

SpecSwapChain == InitSwapChain /\ [][NextSwapChain]_vars

\* Every extent: widths and heights 0..MaxDim with minImageExtent below
\* maxImageExtent, a current extent that is defined or not; and the sizes
\* of a real window.
Dims == 0..MaxDim
Extents == {Extent(w, h) : w \in Dims, h \in Dims}

ExtentCaps ==
    {Caps(2, 0, current, lo, hi) :
        current \in Extents \cup {UndefinedExtent},
        lo \in Extents,
        hi \in Extents}

ExtentLeq(lo, hi) == lo.width <= hi.width /\ lo.height <= hi.height

InitExtent ==
    \E capabilities \in {c \in ExtentCaps \cup {WindowCaps, FreeCaps} :
                            ExtentLeq(c.minImageExtent, c.maxImageExtent)} :
        /\ framebuffer_size \in
               IF capabilities \in ExtentCaps THEN Extents
               ELSE {Extent(WIDTH, HEIGHT), Extent(1024, 768), Extent(8192, 0)}
        /\ AtCreateSwapChain(
               Gpu(<<Combined>>, {"VK_KHR_swapchain"}, capabilities,
                   <<SrgbFormat>>, <<VK_PRESENT_MODE_FIFO_KHR>>))

SpecExtent == InitExtent /\ [][NextSwapChain]_vars

\* Every non-empty list of up to MaxFormats surface formats
SurfaceFormats ==
    {Format(f, c) :
        f \in {VK_FORMAT_B8G8R8A8_SRGB, "VK_FORMAT_B8G8R8A8_UNORM", "VK_FORMAT_R8G8B8A8_SRGB"},
        c \in {VK_COLOR_SPACE_SRGB_NONLINEAR_KHR, "VK_COLOR_SPACE_EXTENDED_SRGB_LINEAR_EXT"}}

InitFormat ==
    /\ framebuffer_size = Extent(WIDTH, HEIGHT)
    /\ \E formats \in SeqsUpTo(SurfaceFormats, MaxFormats) \ {<<>>} :
         AtCreateSwapChain(
             Gpu(<<Combined>>, {"VK_KHR_swapchain"}, WindowCaps,
                 formats, <<VK_PRESENT_MODE_FIFO_KHR>>))

SpecFormat == InitFormat /\ [][NextSwapChain]_vars

\* Every non-empty list of up to MaxPresentModes present modes
PresentModes ==
    {"VK_PRESENT_MODE_IMMEDIATE_KHR", VK_PRESENT_MODE_MAILBOX_KHR,
     VK_PRESENT_MODE_FIFO_KHR, "VK_PRESENT_MODE_FIFO_RELAXED_KHR"}

InitPresentMode ==
    /\ framebuffer_size = Extent(WIDTH, HEIGHT)
    /\ \E present_modes \in SeqsUpTo(PresentModes, MaxPresentModes) \ {<<>>} :
         AtCreateSwapChain(
             Gpu(<<Combined>>, {"VK_KHR_swapchain"}, WindowCaps,
                 <<SrgbFormat>>, present_modes))

SpecPresentMode == InitPresentMode /\ [][NextSwapChain]_vars

(***************************************************************************)
(* Properties.                                                              *)
(***************************************************************************)
Min(S) == CHOOSE x \in S : \A y \in S : x <= y

InstanceHandle == Handle("instance", 0)

\* What a device offers, read off its description alone.
GraphicsFamilies(device) ==
    {i \in 0..(Len(device.families) - 1) : device.families[i + 1].graphics}

PresentFamilies(device) ==
    {i \in 0..(Len(device.families) - 1) : device.families[i + 1].present}

SuitabilityPredicate(device) ==
    /\ GraphicsFamilies(device) # {}
    /\ PresentFamilies(device) # {}
    /\ Range(device_extensions) \subseteq device.extensions
    /\ device.formats # <<>>
    /\ device.present_modes # <<>>

SuitableCandidates == {k \in 1..Len(devices) : SuitabilityPredicate(devices[k])}

PickReturned == pc \notin {"pick_physical_device", "pick_loop"}

\* C1: for every non-empty device list, once pick_physical_device is over the
\* selected device is the first one in enumeration order that satisfies the
\* suitability predicate (its own queue families give a graphics and a
\* present family, the required extensions are supported, formats and
\* present modes are non-empty), and a fatal error was raised exactly when no
\* device of the list satisfies it.
C1_FirstSuitableDeviceSelected ==
    (PickReturned /\ devices # <<>>) =>
        IF SuitableCandidates = {}
        THEN thrown.kind # "none"
        ELSE thrown.kind = "none" /\ physical_device = Min(SuitableCandidates)

\* C2: resolving a device never uses what an earlier device left behind: after
\* each call of find_queue_families in the device loop, indices are what
\* resolving that device alone from an empty QueueFamilyIndices gives (so
\* present_family is unset when the device has no presenting family).
C2_ResolutionSharesNoState ==
    [][pc = "pick_loop" =>
          indices' = find_queue_families(EmptyIndices, devices[cursor])]_vars

\* The lowest index of a set of family indices as an optional
Lowest(S) == IF S = {} THEN nullopt ELSE {Min(S)}

\* C3: after find_queue_families on a device, graphics_family is the lowest
\* index of the device's families that advertises graphics and present_family
\* the lowest index of its families that can present, each independently.
C3_LowestIndexRecorded ==
    [][pc = "pick_loop" =>
          /\ indices'.graphics_family = Lowest(GraphicsFamilies(devices[cursor]))
          /\ indices'.present_family = Lowest(PresentFamilies(devices[cursor]))]_vars

LayerValidationFailed ==
    thrown = [kind |-> "exception",
              what |-> "validation layers requested, but not available!"]

\* C4: once create_instance is over, layer validation has failed exactly when
\* some requested validation layer is not among the driver's available layers,
\* and in that case no instance exists.
C4_LayerValidationByEquality ==
    pc \notin {"init_window", "create_instance"} =>
        LET all_available == Range(validation_layers) \subseteq Range(available_layers)
        IN  /\ LayerValidationFailed <=> ~all_available
            /\ ~all_available => InstanceHandle \notin Range(created)

BootstrapCompleted ==
    /\ Len(swap_chain_framebuffers) = Len(swap_chain_image_views)
    /\ \A i \in 1..Len(swap_chain_framebuffers) :
           swap_chain_framebuffers[i].handle = Handle("framebuffer", i)
    /\ graphics_pipeline # {}

\* C5: when the process has ended after a bootstrap stage raised a fatal error,
\* the error's message is on the diagnostic stream and the exit status is 1;
\* the exit status is 0 only after the bootstrap completed and the event loop
\* ended.
C5_FatalErrorExitsWithStatusOne ==
    pc = "exited" =>
        /\ thrown.kind # "none" =>
               /\ exit_status = [by |-> "return", code |-> EXIT_FAILURE]
               /\ stderr = <<thrown.what>>
        /\ exit_status = [by |-> "return", code |-> EXIT_SUCCESS] =>
               /\ thrown.kind = "none"
               /\ BootstrapCompleted
               /\ destroyed # <<>>

RequestedFamilies ==
    {queue_create_infos[k].queueFamilyIndex : k \in 1..Len(queue_create_infos)}

\* C6: once the logical device exists, there is one queue-creation request per
\* distinct family of {graphics_family, present_family}, the requests name
\* pairwise different families with one queue at priority 1.0 each, and the
\* families of the retrieved graphics and present queues were all requested.
C6_OneRequestPerDistinctFamily ==
    graphics_queue # {} =>
        /\ Len(queue_create_infos) = Cardinality(unique_queue_families(indices))
        /\ \A j, k \in 1..Len(queue_create_infos) :
               j # k => queue_create_infos[j].queueFamilyIndex
                            # queue_create_infos[k].queueFamilyIndex
        /\ \A k \in 1..Len(queue_create_infos) :
               /\ queue_create_infos[k].queueCount = 1
               /\ queue_create_infos[k].queuePriority = 1
        /\ {value(graphics_queue).family, value(present_queue).family}
               \subseteq RequestedFamilies

\* C7: the swapchain is created with concurrent sharing and both family indices
\* listed exactly when the resolved graphics and present family indices
\* differ, and with exclusive sharing and no family index listed otherwise.
C7_SharingModeLaw ==
    swap_create_info # {} =>
        LET create_info == value(swap_create_info)
            g == value(indices.graphics_family)
            p == value(indices.present_family)
        IN  IF g # p
            THEN /\ create_info.imageSharingMode = "VK_SHARING_MODE_CONCURRENT"
                 /\ create_info.queueFamilyIndexCount = 2
                 /\ create_info.pQueueFamilyIndices = <<g, p>>
            ELSE /\ create_info.imageSharingMode = "VK_SHARING_MODE_EXCLUSIVE"
                 /\ create_info.queueFamilyIndexCount = 0
                 /\ create_info.pQueueFamilyIndices = <<>>

\* C7 witness: a swapchain requested with two different families
C7_Witness ==
    /\ swap_create_info # {}
    /\ value(indices.graphics_family) # value(indices.present_family)
    /\ pc = "create_image_views"

SelectedCapabilities == devices[physical_device].capabilities

\* C8: the swapchain is requested with minImageCount + 1 images, except that it
\* is requested with exactly maxImageCount when maxImageCount > 0 and
\* minImageCount + 1 > maxImageCount; a maxImageCount of 0 never lowers it.
C8_ImageCountLaw ==
    swap_create_info # {} =>
        LET capabilities == SelectedCapabilities
            requested == value(swap_create_info).minImageCount
        IN  /\ IF capabilities.maxImageCount > 0
                  /\ capabilities.minImageCount + 1 > capabilities.maxImageCount
               THEN requested = capabilities.maxImageCount
               ELSE requested = capabilities.minImageCount + 1
            /\ capabilities.maxImageCount = 0 =>
                   requested = capabilities.minImageCount + 1

\* C8 witness: a swapchain requested where the maximum is below minImageCount + 1
C8_Witness ==
    /\ swap_create_info # {}
    /\ SelectedCapabilities.maxImageCount > 0
    /\ SelectedCapabilities.minImageCount + 1 > SelectedCapabilities.maxImageCount
    /\ value(swap_create_info).minImageCount = SelectedCapabilities.maxImageCount

\* v brought into [lo, hi]
Clamped(v, lo, hi) == IF v < lo THEN lo ELSE IF v > hi THEN hi ELSE v

\* C9: the swapchain extent is the surface's currentExtent whenever that is not
\* the undefined sentinel, whatever the framebuffer size; otherwise it is the
\* framebuffer size with width and height each clamped into
\* [minImageExtent, maxImageExtent]; the sentinel with framebuffer (1024,768),
\* min (1,1), max (4096,4096) gives (1024,768).
C9_ExtentLaw ==
    swap_create_info # {} =>
        LET capabilities == SelectedCapabilities
            extent == value(swap_create_info).imageExtent
        IN  /\ IF capabilities.currentExtent # UndefinedExtent
               THEN extent = capabilities.currentExtent
               ELSE /\ extent.width = Clamped(framebuffer_size.width,
                                              capabilities.minImageExtent.width,
                                              capabilities.maxImageExtent.width)
                    /\ extent.height = Clamped(framebuffer_size.height,
                                               capabilities.minImageExtent.height,
                                               capabilities.maxImageExtent.height)
            /\ (capabilities = FreeCaps /\ framebuffer_size = Extent(1024, 768)) =>
                   extent = Extent(1024, 768)

\* C9 witness: an undefined current extent and a framebuffer wider than
\* maxImageExtent and lower than minImageExtent
C9_Witness ==
    /\ swap_create_info # {}
    /\ SelectedCapabilities.currentExtent = UndefinedExtent
    /\ framebuffer_size.width > SelectedCapabilities.maxImageExtent.width
    /\ framebuffer_size.height < SelectedCapabilities.minImageExtent.height
    /\ pc = "create_image_views"

\* C10: the swapchain format is the 8-bit BGRA sRGB / sRGB-nonlinear entry of
\* the device's non-empty format list when the list has one, wherever it
\* stands, and the first entry of the list when it has none.
C10_FormatLaw ==
    swap_create_info # {} =>
        LET formats == devices[physical_device].formats
            chosen == Format(value(swap_create_info).imageFormat,
                             value(swap_create_info).imageColorSpace)
        IN  IF SrgbFormat \in Range(formats)
            THEN chosen = SrgbFormat
            ELSE chosen = formats[1]

\* C10 witness: the preferred entry chosen from behind another entry
C10_Witness ==
    /\ swap_create_info # {}
    /\ devices[physical_device].formats[1] # SrgbFormat
    /\ SrgbFormat \in Range(devices[physical_device].formats)
    /\ value(swap_create_info).imageFormat = VK_FORMAT_B8G8R8A8_SRGB
    /\ pc = "create_image_views"

\* C11: the swapchain's present mode is the mailbox mode when the device's
\* present-mode list contains it, wherever it stands, and the FIFO mode
\* otherwise, also when FIFO is not itself in the list.
C11_PresentModeLaw ==
    swap_create_info # {} =>
        LET present_modes == devices[physical_device].present_modes
            chosen == value(swap_create_info).presentMode
        IN  IF VK_PRESENT_MODE_MAILBOX_KHR \in Range(present_modes)
            THEN chosen = VK_PRESENT_MODE_MAILBOX_KHR
            ELSE chosen = VK_PRESENT_MODE_FIFO_KHR

\* C11 witness: FIFO chosen from a list that holds neither mailbox nor FIFO
C11_Witness ==
    /\ swap_create_info # {}
    /\ VK_PRESENT_MODE_MAILBOX_KHR \notin Range(devices[physical_device].present_modes)
    /\ VK_PRESENT_MODE_FIFO_KHR \notin Range(devices[physical_device].present_modes)
    /\ value(swap_create_info).presentMode = VK_PRESENT_MODE_FIFO_KHR
    /\ pc = "create_image_views"

\* create_framebuffers has returned
FramebuffersCompleted ==
    \/ pc \in {"main_loop", "cleanup"}
    \/ pc = "exited" /\ thrown.kind = "none"

CreatedOfKind(kind) == {k \in 1..Len(created) : created[k].kind = kind}

\* C12: from the return of create_framebuffers on, for the N swapchain image
\* views exactly N framebuffers were created and the vector holds them, one
\* per view: framebuffer i is bound to the render pass with image view i as
\* its single attachment, no image view is attached to two framebuffers, and
\* len(framebuffers) = len(image_views).
C12_OneFramebufferPerImageView ==
    FramebuffersCompleted =>
        LET N == Len(swap_chain_image_views)
        IN  /\ Len(swap_chain_framebuffers) = N
            /\ Cardinality(CreatedOfKind("framebuffer")) = N
            /\ \A i \in 1..N :
                   /\ swap_chain_framebuffers[i].handle = Handle("framebuffer", i)
                   /\ swap_chain_framebuffers[i].renderPass = value(render_pass)
                   /\ swap_chain_framebuffers[i].attachments = <<swap_chain_image_views[i]>>
            /\ \A i, j \in 1..N :
                   i # j => Range(swap_chain_framebuffers[i].attachments)
                               \cap Range(swap_chain_framebuffers[j].attachments) = {}

\* C12 witness: create_framebuffers returned with three image views
C12_Witness ==
    /\ pc = "main_loop"
    /\ Len(swap_chain_image_views) = 3
    /\ Len(swap_chain_framebuffers) = 3
    /\ swap_chain_framebuffers[3].attachments = <<Handle("image_view", 3)>>

\* Position of handle h in the creation log
CreatedAt(h) == CHOOSE k \in 1..Len(created) : created[k] = h

\* The entities of cleanup are the kinds of handle: the framebuffers, the
\* pipeline, ..., the image views, ..., the instance.  Handle h is alive when
\* cleanup, having destroyed d[1..k-1], is about to destroy d[k].
AliveBefore(h, d, k) ==
    /\ h \in Range(created)
    /\ h \notin Range(destroyed)
    /\ \A i \in 1..(k - 1) : d[i] # h

\* d, the handles destroyed by one run of cleanup in order, is the reverse of
\* the creation order of their kinds.
ReverseOfCreation(d) ==
    /\ \A k \in 1..Len(d) :
           /\ AliveBefore(d[k], d, k)
           /\ \A j \in 1..Len(created) :
                  (created[j].kind # d[k].kind /\ j > CreatedAt(d[k]))
                      => ~AliveBefore(created[j], d, k)
    /\ \A i, k \in 1..Len(d) :
           (d[i].kind = "image_view" /\ d[k].kind = "swap_chain") => i < k
    /\ d # <<>> /\ d[Len(d)] = InstanceHandle
    /\ Range(created) \subseteq Range(destroyed) \cup Range(d)

\* C13: on clean shutdown cleanup destroys the entities (framebuffers,
\* pipeline, pipeline layout, render pass, image views, swapchain, logical
\* device, surface, instance) in the reverse of the order in which init_vulkan
\* created them: none is destroyed while an entity created after it is still
\* alive, every image view is destroyed before the swapchain, and the
\* instance is destroyed last, leaving nothing alive.
C13_CleanupReversesCreation ==
    [][pc = "cleanup" =>
          ReverseOfCreation(SubSeq(destroyed', Len(destroyed) + 1, Len(destroyed')))]_vars

\* C13 witness: a clean shutdown that destroyed three image views and three
\* framebuffers
C13_Witness ==
    /\ pc = "exited"
    /\ exit_status = [by |-> "return", code |-> EXIT_SUCCESS]
    /\ Len(swap_chain_image_views) = 3
    /\ destroyed[Len(destroyed)] = InstanceHandle
    /\ Handle("framebuffer", 3) \in Range(destroyed)

\* The stages of init_vulkan in call order; the device loop is part of
\* pick_physical_device.
StageOrder ==
    <<"create_instance", "create_surface", "pick_physical_device",
      "create_logical_device", "create_swap_chain", "create_image_views",
      "create_render_pass", "create_graphics_pipeline", "create_framebuffers">>

StageOf(position) == IF position = "pick_loop" THEN "pick_physical_device" ELSE position

StageNumber(stage) == CHOOSE n \in 1..Len(StageOrder) : StageOrder[n] = stage

\* What a stage leaves behind when it has run: the handles it creates and
\* the members it writes.
StageTrace(stage) ==
    CASE stage = "create_instance" -> CreatedOfKind("instance") # {}
      [] stage = "create_surface" -> CreatedOfKind("surface") # {}
      [] stage = "pick_physical_device" ->
             cursor # 0 \/ physical_device # VK_NULL_HANDLE \/ indices # EmptyIndices
      [] stage = "create_logical_device" ->
             \/ CreatedOfKind("device") # {}
             \/ queue_create_infos # <<>> \/ graphics_queue # {} \/ present_queue # {}
      [] stage = "create_swap_chain" ->
             \/ CreatedOfKind("swap_chain") # {}
             \/ swap_create_info # {} \/ swap_chain_images # <<>>
             \/ swap_chain_image_format # {} \/ swap_chain_extent # {}
      [] stage = "create_image_views" ->
             CreatedOfKind("image_view") # {} \/ swap_chain_image_views # <<>>
      [] stage = "create_render_pass" ->
             CreatedOfKind("render_pass") # {} \/ render_pass # {}
      [] stage = "create_graphics_pipeline" ->
             \/ CreatedOfKind("shader_module") # {} \/ CreatedOfKind("pipeline_layout") # {}
             \/ CreatedOfKind("graphics_pipeline") # {} \/ graphics_pipeline # {}
      [] stage = "create_framebuffers" ->
             CreatedOfKind("framebuffer") # {} \/ swap_chain_framebuffers # <<>>

\* No stage after stage number n has run.
NoLaterStageRan(n) ==
    \A later_stage \in (n + 1)..Len(StageOrder) : ~StageTrace(StageOrder[later_stage])

\* C14: a failure in a bootstrap stage is immediately fatal: the step that
\* raises it ends the process with no stage after the failed one having run,
\* and no step is ever taken after a failure (no later stage, no retry);
\* with zero physical devices pick_physical_device fails, so no
\* device-dependent stage runs.
C14_FailureIsImmediatelyFatal ==
    [][/\ thrown.kind = "none"
       /\ thrown'.kind # "none" =>
              /\ pc' = "exited"
              /\ exit_status'.by # "running"
              /\ \E n \in 1..Len(StageOrder) :
                     /\ n = StageNumber(StageOf(pc))
                     /\ NoLaterStageRan(n)'
       /\ (pc = "pick_physical_device" /\ devices = <<>>) => thrown'.kind # "none"]_vars

\* C14 witness: the process ended in pick_physical_device on a machine with
\* no physical device, with the instance and the surface created
C14_Witness ==
    /\ pc = "exited"
    /\ devices = <<>>
    /\ thrown = [kind |-> "exception", what |-> "failed to find GPU with Vulkan support!"]
    /\ created = <<Handle("instance", 0), Handle("surface", 0)>>
    /\ NoLaterStageRan(StageNumber("pick_physical_device"))

\* What each stage consumes has been produced when the run stands at it.
ConsumedHandlesProduced ==
    /\ pc = "create_surface" => CreatedOfKind("instance") # {}
    /\ pc \in {"pick_physical_device", "pick_loop"} =>
           CreatedOfKind("instance") # {} /\ CreatedOfKind("surface") # {}
    /\ pc = "create_logical_device" =>
           physical_device \in 1..Len(devices) /\ is_complete(indices)
    /\ pc = "create_swap_chain" =>
           /\ CreatedOfKind("device") # {} /\ CreatedOfKind("surface") # {}
           /\ physical_device \in 1..Len(devices) /\ is_complete(indices)
    /\ pc = "create_image_views" =>
           /\ CreatedOfKind("swap_chain") # {}
           /\ swap_chain_images # <<>> /\ swap_chain_image_format # {}
    /\ pc = "create_render_pass" =>
           CreatedOfKind("device") # {} /\ swap_chain_image_format # {}
    /\ pc = "create_graphics_pipeline" =>
           /\ CreatedOfKind("render_pass") # {}
           /\ render_pass # {} /\ swap_chain_extent # {}
    /\ pc = "create_framebuffers" =>
           /\ CreatedOfKind("render_pass") # {}
           /\ render_pass # {} /\ swap_chain_extent # {}
           /\ Len(swap_chain_image_views) = Len(swap_chain_images)
           /\ \A i \in 1..Len(swap_chain_image_views) :
                  /\ swap_chain_image_views[i] = Handle("image_view", i)
                  /\ swap_chain_image_views[i] \in Range(created)

SingleHandleKinds ==
    {"instance", "surface", "device", "swap_chain", "render_pass",
     "pipeline_layout", "graphics_pipeline"}

\* C15: the bootstrap stages run in the fixed order instance, surface, device
\* selection, logical device, swapchain, image views, render pass, pipeline,
\* framebuffers: a stage is entered only from the stage before it (the first
\* from init_window), so none is re-entered; a stage that returns is followed
\* by the next one; when init_vulkan has returned every stage has run and
\* created its handle once; and whenever the run stands at a stage, every
\* handle the stage consumes has been produced.
C15_StagesRunOnceInOrder ==
    [][/\ \A n \in 1..Len(StageOrder) :
              /\ (pc' = StageOrder[n] /\ pc' # pc) =>
                     IF n = 1 THEN pc = "init_window"
                     ELSE StageOf(pc) = StageOrder[n - 1] /\ thrown'.kind = "none"
              /\ (StageOf(pc) = StageOrder[n] /\ StageOf(pc') # StageOrder[n]) =>
                     \/ pc' = "exited" /\ thrown'.kind # "none"
                     \/ pc' = IF n = Len(StageOrder) THEN "main_loop" ELSE StageOrder[n + 1]
       /\ pc' = "pick_loop" => StageOf(pc) = "pick_physical_device"
       /\ (pc' = "main_loop" /\ pc # "main_loop") =>
              /\ pc = "create_framebuffers"
              /\ \A n \in 1..Len(StageOrder) : StageTrace(StageOrder[n])'
              /\ \A kind \in SingleHandleKinds : Cardinality(CreatedOfKind(kind)') = 1
       /\ ConsumedHandlesProduced']_vars

\* C15 witness: init_vulkan has returned after selecting the second device
C15_Witness ==
    /\ pc = "main_loop"
    /\ physical_device = 2
    /\ \A n \in 1..Len(StageOrder) : StageTrace(StageOrder[n])
    /\ Len(swap_chain_framebuffers) = 4

\* C16: whenever pick_physical_device has succeeded, the stored indices belong
\* to the selected device, whatever devices were scanned before it:
\* graphics_family is the index of one of its families that advertises
\* graphics and present_family the index of one of its families that can
\* present to the surface.
C16_IndicesBelongToSelectedDevice ==
    (PickReturned /\ physical_device # VK_NULL_HANDLE) =>
        /\ is_complete(indices)
        /\ value(indices.graphics_family) \in GraphicsFamilies(devices[physical_device])
        /\ value(indices.present_family) \in PresentFamilies(devices[physical_device])

\* The process has ended after a bootstrap stage failed.
FailedRun == pc = "exited" /\ thrown.kind # "none"

ShaderModules == {Handle("shader_module", 1), Handle("shader_module", 2)}

\* cleanup stands to run, or has run (the instance is what it destroys last)
CleanupEntered == pc = "cleanup" \/ InstanceHandle \in Range(destroyed)

\* C17 as stated: cleanup is entered only after every stage of init_vulkan
\* completed, and when the process has ended after a failed stage cleanup has
\* not run and every handle created before the failure is still undestroyed.
C17_FailedRunDestroysNothing ==
    /\ CleanupEntered =>
           thrown.kind = "none" /\ \A n \in 1..Len(StageOrder) : StageTrace(StageOrder[n])
    /\ FailedRun =>
           /\ ~CleanupEntered
           /\ Range(created) \cap Range(destroyed) = {}

\* C17 amended: cleanup is entered only from the event loop, after every stage
\* of init_vulkan completed; when the process has ended after a failed stage
\* cleanup has not run and every handle created before the failure is still
\* undestroyed, except the two shader modules, which create_graphics_pipeline
\* destroys itself before it returns.
C17_FailedRunLeaksAllButShaderModules ==
    /\ [](CleanupEntered =>
             thrown.kind = "none" /\ \A n \in 1..Len(StageOrder) : StageTrace(StageOrder[n]))
    /\ [][(pc' = "cleanup" /\ pc # "cleanup") => pc = "main_loop"]_vars
    /\ [](FailedRun =>
             /\ ~CleanupEntered
             /\ Range(created) \cap Range(destroyed) \subseteq ShaderModules
             /\ destroyed # <<>> => (Range(destroyed) = ShaderModules /\ graphics_pipeline # {}))

\* C17 witness: create_framebuffers failed after its first framebuffer; the
\* eleven other handles and that framebuffer are left alive, only the shader
\* modules are gone
C17_Witness ==
    /\ FailedRun
    /\ thrown.what = "failed to create framebuffer"
    /\ Handle("framebuffer", 1) \in Range(created) \ Range(destroyed)
    /\ InstanceHandle \in Range(created) \ Range(destroyed)
    /\ Range(destroyed) = ShaderModules

====
